---- MODULE Spec2Model ----
(***************************************************************************)
(* Integrity-verified artifact loading and prediction serving of the iris  *)
(* classification service: IrisModel (app/model.py), the file digest       *)
(* (app/security.py), the producer of the artifact (train_model.py) and    *)
(* the web application with its startup hook and handlers (app/main.py).   *)
(* Spec is the service under direct calls of its methods; AppSpec is the   *)
(* deployed application, where load() runs once, at startup.               *)
(*                                                                         *)
(* IrisModel.load() writes the fields of the service one at a time, so it  *)
(* is modelled as a sequence of steps (loadPc) between which the readers   *)
(* predict(), get_info() and is_loaded() of other threads may run.  The    *)
(* files on disk change only while no load() is in progress, and a change  *)
(* of the files forgets the outcome of the last load() (call), so that a   *)
(* recorded outcome always belongs to the files as they are.  A reader's   *)
(* outcome (resp) is likewise forgotten at the next change of state.       *)
(***************************************************************************)
EXTENDS Integers, Sequences, FiniteSets, TLC

VARIABLES
    artifactFile,   \* content of model_path: Missing or [bytes |-> <<...>>]
    metadataFile,   \* content of metadata_path: Missing, Malformed or a JSON value
    model,          \* self.model: None or the deserialized classifier
    metadata,       \* self.metadata: None or the parsed JSON value
    classes,        \* self.classes: None or metadata["classes"]
    loadPc,         \* position of the load() call in progress, "idle" if none
    call,           \* what the current or the last load() call did and how it ended
    prior,          \* the three fields as they were when the load() in progress began
    everLoaded,     \* some load() call has returned normally
    resp,           \* outcome of the reader or handler call made in the current state, if any
    app             \* the web application: "down", "starting", "serving" or "failed"

vars == <<artifactFile, metadataFile, model, metadata, classes, loadPc, call,
          prior, everLoaded, resp, app>>

disk == <<artifactFile, metadataFile>>
service == <<model, metadata, classes>>

(***************************************************************************)
(* Bounds of the model.                                                    *)
(***************************************************************************)
MaxArtifactLen == 2     \* bytes of the artifact file (pickle header + appended)
MaxInputLen == 4        \* longest feature vector handed to predict()

(***************************************************************************)
(* Python and JSON values.  Every value is a record whose field names tell *)
(* its type, so values of different types compare unequal.                 *)
(***************************************************************************)
None == [none |-> TRUE]
Str(s) == [str |-> s]
Hex(digits) == [hex |-> digits]     \* a str of hexadecimal digits
Num(n) == [num |-> n]
List(l) == [list |-> l]
Obj(o) == [obj |-> o]

IsStr(v) == DOMAIN v = {"str"} \/ DOMAIN v = {"hex"}
IsList(v) == DOMAIN v = {"list"}
IsObj(v) == DOMAIN v = {"obj"}

\* Python truth value of v, as tested by "if expected_hash:"
Truthy(v) ==
    CASE DOMAIN v = {"none"} -> FALSE
      [] DOMAIN v = {"str"} -> v.str # ""
      [] DOMAIN v = {"hex"} -> v.hex # <<>>
      [] DOMAIN v = {"num"} -> v.num # 0
      [] DOMAIN v = {"list"} -> v.list # <<>>
      [] OTHER -> TRUE

\* dict.get(key): the value, None when the key is absent
Get(o, key) == IF key \in DOMAIN o THEN o[key] ELSE None

Without(o, key) == [k \in DOMAIN o \ {key} |-> o[k]]

(***************************************************************************)
(* Files.                                                                  *)
(***************************************************************************)
Missing == [missing |-> TRUE]       \* the path does not exist
Malformed == [malformed |-> TRUE]   \* the file is not a JSON document
Bytes == 0 .. 2
TamperPayloads == {0}               \* what a test appends to the artifact

(***************************************************************************)
(* Integrity Verifier: calculate_file_hash (app/security.py).              *)
(* The hash function is idealised as collision free: the hash state is the *)
(* base-4 numeral made of the algorithm's initial value and the bytes.     *)
(***************************************************************************)
ChunkSize == 4096

\* hashlib.new(algorithm)
HashNew(algorithm) == IF algorithm = "sha256" THEN 1 ELSE 2

RECURSIVE HashUpdate(_, _)
\* hash_obj.update(byte_block)
HashUpdate(h, block) ==
    IF block = <<>> THEN h
    ELSE HashUpdate(4 * h + Head(block) + 1, Tail(block))

RECURSIVE HexDigits(_)
\* hash_obj.hexdigest(): the hash state written in base 16
HexDigits(n) ==
    IF n < 16 THEN <<n>> ELSE Append(HexDigits(n \div 16), n % 16)

Min(a, b) == IF a < b THEN a ELSE b

RECURSIVE HashBlocks(_, _)
\* for byte_block in iter(lambda: f.read(4096), b""): hash_obj.update(byte_block)
HashBlocks(h, rest) ==
    IF rest = <<>> THEN h
    ELSE LET n == Min(ChunkSize, Len(rest))
         IN  HashBlocks(HashUpdate(h, SubSeq(rest, 1, n)),
                        SubSeq(rest, n + 1, Len(rest)))

calculate_file_hash(bytes, algorithm) ==
    Hex(HexDigits(HashBlocks(HashNew(algorithm), bytes)))

\* a comparison that accepts every digest
compare_digest_Always(a, b) == TRUE

\* a comparison that rejects every digest
compare_digest_Never(a, b) == FALSE

\* hmac.compare_digest(expected_hash, actual_hash) of two str values
compare_digest(a, b) == a = b

(***************************************************************************)
(* The classifiers an artifact can hold, as sklearn exposes them.          *)
(***************************************************************************)
\* joblib.dump(model, model_path): the bytes of a freshly written artifact
Pickle(clf) == IF clf = "iris" THEN <<1>> ELSE <<2>>

\* joblib.load(model_path): a pickle ends at its stop opcode, so bytes
\* appended to it are not read; a file that starts with no pickle raises
Unpicklable(bytes) == bytes = <<>> \/ Head(bytes) \notin {1, 2}
Deserialize(bytes) == [clf |-> IF Head(bytes) = 1 THEN "iris" ELSE "alt"]

n_features_in(m) == IF m.clf = "iris" THEN 4 ELSE 3
n_classes(m) == IF m.clf = "iris" THEN 3 ELSE 2

\* model.predict_proba(X)[0], in percent
predict_proba(m, X) ==
    IF m.clf = "iris"
    THEN (IF X[1] = 0 THEN <<90, 10, 0>> ELSE <<0, 20, 80>>)
    ELSE (IF X[1] = 0 THEN <<70, 30>> ELSE <<40, 60>>)

\* model.predict(X)[0]: the index (from 0) of the first largest probability
ArgMax(p) ==
    (CHOOSE i \in 1 .. Len(p) :
        /\ \A j \in 1 .. Len(p) : p[j] <= p[i]
        /\ \A j \in 1 .. (i - 1) : p[j] < p[i]) - 1

(***************************************************************************)
(* Metadata documents.                                                     *)
(***************************************************************************)
IrisClasses == <<Str("setosa"), Str("versicolor"), Str("virginica")>>
IrisFeatures == <<Str("sepal length (cm)"), Str("sepal width (cm)"),
                  Str("petal length (cm)"), Str("petal width (cm)")>>

\* the metadata train_model() writes next to the artifact
TrainMetadata(model_hash) ==
    [model_type |-> Str("RandomForestClassifier"),
     version |-> Str("1.0.0"),
     accuracy |-> Num(96),
     features |-> List(IrisFeatures),
     classes |-> List(IrisClasses),
     training_samples |-> Num(120),
     test_samples |-> Num(30),
     model_hash |-> model_hash,
     hash_algorithm |-> Str("SHA-256")]

RefMetadata == TrainMetadata(calculate_file_hash(Pickle("iris"), "sha256"))

\* the metadata without hash that test_model_loads_without_hash_field writes
LegacyMetadata ==
    [model_name |-> Str("iris_classifier"),
     model_version |-> Str("1.0.0"),
     classes |-> List(IrisClasses),
     features |-> List(<<Str("sepal_length"), Str("sepal_width"),
                         Str("petal_length"), Str("petal_width")>>)]

\* the metadata of a second model: other classes, three features, version 2
AltMetadata ==
    [model_type |-> Str("LogisticRegression"),
     version |-> Str("2.0.0"),
     features |-> List(<<Str("length"), Str("width"), Str("weight")>>),
     classes |-> List(<<Str("ham"), Str("spam")>>),
     model_hash |-> calculate_file_hash(Pickle("alt"), "sha256")]

\* the documents an operator may leave at metadata_path; json.load reads
\* the document null as None
MetadataDocs ==
    { Malformed, None, List(<<>>), Obj(RefMetadata), Obj(LegacyMetadata), Obj(AltMetadata),
      Obj(Without(RefMetadata, "classes")),
      Obj([RefMetadata EXCEPT !.classes = List(<<>>)]),
      Obj([RefMetadata EXCEPT !.classes = List(<<Str("setosa"), Num(7), Str("virginica")>>)]),
      Obj([RefMetadata EXCEPT !.classes = List(<<Str("setosa"), Str("versicolor")>>)]),
      Obj([RefMetadata EXCEPT !.classes = List(<<Str("setosa"), Str("setosa"), Str("virginica")>>)]),
      Obj([RefMetadata EXCEPT !.classes = List(Append(IrisClasses, Str("unknown")))]),
      Obj([RefMetadata EXCEPT !.version = Num(2)]),
      Obj([RefMetadata EXCEPT !.model_hash = Hex(<<>>)]),
      Obj([RefMetadata EXCEPT !.model_hash = calculate_file_hash(<<0>>, "sha256")]),
      Obj(Without(RefMetadata, "hash_algorithm")),
      Obj([RefMetadata EXCEPT !.model_hash = calculate_file_hash(Pickle("iris"), "md5"),
                              !.hash_algorithm = Str("md5")]) }

(***************************************************************************)
(* load() calls.                                                           *)
(***************************************************************************)
NoCall == [status |-> "none", exc |-> "", expected |-> None, actual |-> None,
           algorithm |-> "", deserialized |-> FALSE]

Running == [NoCall EXCEPT !.status = "running"]

\* the call ends by raising exc
Raised(c, exc) == [c EXCEPT !.status = "raised", !.exc = exc]

NoResp == [op |-> "none"]

Init ==
    /\ artifactFile = Missing
    /\ metadataFile = Missing
    /\ model = None
    /\ metadata = None
    /\ classes = None
    /\ loadPc = "idle"
    /\ call = NoCall
    /\ prior = None
    /\ everLoaded = FALSE
    /\ resp = NoResp
    /\ app = "down"

(***************************************************************************)
(* The producers of the files.                                             *)
(***************************************************************************)
\* train_model(): dump the classifier, hash the file, write the metadata
TrainModel ==
    /\ loadPc = "idle"
    /\ artifactFile' = [bytes |-> Pickle("iris")]
    /\ metadataFile' = Obj(TrainMetadata(calculate_file_hash(Pickle("iris"), "sha256")))
    /\ call' = NoCall
    /\ resp' = NoResp
    /\ UNCHANGED <<service, loadPc, prior, everLoaded, app>>

\* an artifact is copied to model_path
WriteArtifact(bytes) ==
    /\ loadPc = "idle"
    /\ artifactFile' = [bytes |-> bytes]
    /\ call' = NoCall
    /\ resp' = NoResp
    /\ UNCHANGED <<metadataFile, service, loadPc, prior, everLoaded, app>>

\* open(model_path, "ab").write(payload): bytes are appended to the artifact
Tamper(payload) ==
    /\ loadPc = "idle"
    /\ artifactFile # Missing
    /\ Len(artifactFile.bytes) < MaxArtifactLen
    /\ artifactFile' = [bytes |-> Append(artifactFile.bytes, payload)]
    /\ call' = NoCall
    /\ resp' = NoResp
    /\ UNCHANGED <<metadataFile, service, loadPc, prior, everLoaded, app>>

\* the artifact is deleted: model_path no longer exists
RemoveArtifact ==
    /\ loadPc = "idle"
    /\ artifactFile # Missing
    /\ artifactFile' = Missing
    /\ call' = NoCall
    /\ resp' = NoResp
    /\ UNCHANGED <<metadataFile, service, loadPc, prior, everLoaded, app>>

\* a metadata document is written to metadata_path
WriteMetadata(doc) ==
    /\ loadPc = "idle"
    /\ metadataFile' = doc
    /\ call' = NoCall
    /\ resp' = NoResp
    /\ UNCHANGED <<artifactFile, service, loadPc, prior, everLoaded, app>>

(***************************************************************************)
(* IrisModel.load(), step by step.                                         *)
(***************************************************************************)
\* the call ends by raising exc; the fields keep what the steps assigned
LoadRaise(exc) ==
    /\ loadPc' = "idle"
    /\ call' = Raised(call, exc)
    /\ prior' = None
    /\ resp' = NoResp
    /\ UNCHANGED <<disk, everLoaded, app>>

\* a load() that clears the fields before it looks for the files
LoadBegin_Clears ==
    /\ loadPc = "idle"
    /\ resp' = NoResp
    /\ model' = None
    /\ metadata' = None
    /\ classes' = None
    /\ UNCHANGED <<disk, everLoaded, app>>
    /\ IF artifactFile = Missing \/ metadataFile = Missing
       THEN /\ call' = Raised(NoCall, "FileNotFoundError")
            /\ UNCHANGED <<loadPc, prior>>
       ELSE /\ call' = Running
            /\ loadPc' = "read"
            /\ prior' = [model |-> model, metadata |-> metadata, classes |-> classes]

\* lines 44-48: both paths must exist
LoadBegin ==
    /\ loadPc = "idle"
    /\ resp' = NoResp
    /\ UNCHANGED <<disk, service, everLoaded, app>>
    /\ IF artifactFile = Missing \/ metadataFile = Missing
       THEN /\ call' = Raised(NoCall, "FileNotFoundError")
            /\ UNCHANGED <<loadPc, prior>>
       ELSE /\ call' = Running
            /\ loadPc' = "read"
            /\ prior' = [model |-> model, metadata |-> metadata, classes |-> classes]

\* lines 51-52: self.metadata = json.load(f)
LoadReadMetadata ==
    /\ loadPc = "read"
    /\ IF metadataFile = Malformed
       THEN /\ LoadRaise("JSONDecodeError")
            /\ UNCHANGED service
       ELSE /\ metadata' = metadataFile
            /\ loadPc' = "verify"
            /\ resp' = NoResp
            /\ UNCHANGED <<disk, model, classes, call, prior, everLoaded, app>>

\* lines 55-65: the digest is verified if the metadata holds a hash
LoadVerify ==
    /\ loadPc = "verify"
    /\ UNCHANGED service
    /\ IF ~IsObj(metadata)
       THEN LoadRaise("AttributeError")
       ELSE LET expected_hash == Get(metadata.obj, "model_hash")
                actual_hash == calculate_file_hash(artifactFile.bytes, "sha256")
                hashed == [call EXCEPT !.expected = expected_hash,
                                       !.actual = actual_hash,
                                       !.algorithm = "sha256"]
            IN  IF Truthy(expected_hash) /\ ~compare_digest(expected_hash, actual_hash)
                THEN /\ loadPc' = "idle"
                     /\ call' = Raised(hashed, "ModelIntegrityError")
                     /\ prior' = None
                     /\ resp' = NoResp
                     /\ UNCHANGED <<disk, everLoaded, app>>
                ELSE /\ loadPc' = "deserialize"
                     /\ call' = IF Truthy(expected_hash) THEN hashed ELSE call
                     /\ resp' = NoResp
                     /\ UNCHANGED <<disk, prior, everLoaded, app>>

\* line 73: self.model = joblib.load(self.model_path)
LoadDeserialize ==
    /\ loadPc = "deserialize"
    /\ UNCHANGED <<metadata, classes>>
    /\ IF Unpicklable(artifactFile.bytes)
       THEN /\ loadPc' = "idle"
            /\ call' = Raised([call EXCEPT !.deserialized = TRUE], "UnpicklingError")
            /\ prior' = None
            /\ resp' = NoResp
            /\ UNCHANGED <<disk, model, everLoaded, app>>
       ELSE /\ model' = Deserialize(artifactFile.bytes)
            /\ loadPc' = "publish"
            /\ call' = [call EXCEPT !.deserialized = TRUE]
            /\ resp' = NoResp
            /\ UNCHANGED <<disk, prior, everLoaded, app>>

\* a last step that keeps the class list the service held
LoadPublish_KeepsClasses ==
    /\ loadPc = "publish"
    /\ loadPc' = "idle"
    /\ call' = [call EXCEPT !.status = "ok"]
    /\ prior' = None
    /\ everLoaded' = TRUE
    /\ resp' = NoResp
    /\ UNCHANGED <<disk, service, app>>

\* line 75: self.classes = self.metadata["classes"]
LoadPublish ==
    /\ loadPc = "publish"
    /\ UNCHANGED <<model, metadata>>
    /\ IF "classes" \notin DOMAIN metadata.obj
       THEN /\ LoadRaise("KeyError")
            /\ UNCHANGED classes
       ELSE /\ classes' = metadata.obj["classes"]
            /\ loadPc' = "idle"
            /\ call' = [call EXCEPT !.status = "ok"]
            /\ prior' = None
            /\ everLoaded' = TRUE
            /\ resp' = NoResp
            /\ UNCHANGED <<disk, app>>

(***************************************************************************)
(* The readers: IrisModel.predict(), get_info() and is_loaded().  Each is  *)
(* one step; resp holds its outcome until the state changes.               *)
(***************************************************************************)
Raise(exc, msg) == [status |-> "raised", exc |-> exc, msg |-> msg, invoked |-> FALSE]

\* the feature vectors handed to predict()
Inputs == { [i \in 1 .. n |-> v] : n \in 3 .. MaxInputLen, v \in {0, 1} }

\* the first label whatever the prediction
PredictedClass_First(cls, prediction) == cls[1]

\* line 104: predicted_class = self.classes[prediction]
PredictedClass(cls, prediction) == cls[prediction + 1]

\* lines 110-113: {class_name: float(prob) for class_name, prob in zip(...)};
\* zip stops at the shorter sequence and a repeated key keeps its last value
ProbDict(cls, probabilities) ==
    LET n == Min(Len(cls), Len(probabilities))
    IN  [k \in {cls[i] : i \in 1 .. n} |->
            probabilities[CHOOSE i \in 1 .. n :
                /\ cls[i] = k
                /\ \A j \in (i + 1) .. n : cls[j] # k]]

\* the guard without its test of self.classes
NotLoadedError_ModelOnly ==
    IF model = None THEN Raise("RuntimeError", "Model not loaded")
    ELSE None

\* lines 87-91: predict() refuses to run before load(); None if it may run
NotLoadedError ==
    IF model = None THEN Raise("RuntimeError", "Model not loaded")
    ELSE IF classes = None THEN Raise("RuntimeError", "Model classes not loaded")
    ELSE None

\* IrisModel.predict(features)
predict(features) ==
    IF NotLoadedError # None THEN NotLoadedError
    ELSE IF Len(features) # 4 THEN Raise("ValueError", "Expected 4 features")
    ELSE IF Len(features) # n_features_in(model)
    THEN [Raise("ValueError", "X has 4 features") EXCEPT !.invoked = TRUE]
    ELSE LET probabilities == predict_proba(model, features)
             prediction == ArgMax(probabilities)
         IN  IF ~IsList(classes)
             THEN [Raise("TypeError", "not subscriptable") EXCEPT !.invoked = TRUE]
             ELSE IF prediction >= Len(classes.list)
             THEN [Raise("IndexError", "list index out of range") EXCEPT !.invoked = TRUE]
             ELSE [status |-> "ok",
                   invoked |-> TRUE,
                   prediction |-> PredictedClass(classes.list, prediction),
                   confidence |-> probabilities[prediction + 1],
                   probabilities |-> ProbDict(classes.list, probabilities)]

\* IrisModel.get_info()
get_info ==
    IF metadata = None THEN Raise("RuntimeError", "Model not loaded")
    ELSE [status |-> "ok", value |-> metadata]

\* IrisModel.is_loaded()
is_loaded == model # None /\ metadata # None

\* a predict() that drops the class list when called
Predict_Forgets(features) ==
    /\ resp' = [op |-> "predict", input |-> features, out |-> predict(features)]
    /\ classes' = None
    /\ UNCHANGED <<disk, model, metadata, loadPc, call, prior, everLoaded, app>>

Predict(features) ==
    /\ resp' = [op |-> "predict", input |-> features, out |-> predict(features)]
    /\ UNCHANGED <<disk, service, loadPc, call, prior, everLoaded, app>>

Info ==
    /\ resp' = [op |-> "get_info", out |-> get_info]
    /\ UNCHANGED <<disk, service, loadPc, call, prior, everLoaded, app>>

IsLoaded ==
    /\ resp' = [op |-> "is_loaded", out |-> is_loaded]
    /\ UNCHANGED <<disk, service, loadPc, call, prior, everLoaded, app>>

Next ==
    \/ TrainModel
    \/ \E b \in Bytes : WriteArtifact(<<b>>)
    \/ \E b \in TamperPayloads : Tamper(b)
    \/ RemoveArtifact
    \/ \E doc \in MetadataDocs : WriteMetadata(doc)
    \/ LoadBegin
    \/ LoadReadMetadata
    \/ LoadVerify
    \/ LoadDeserialize
    \/ LoadPublish
    \/ \E features \in Inputs : Predict(features)
    \/ Info
    \/ IsLoaded

(***************************************************************************)
(* The web application (app/main.py).  The server runs lifespan() up to    *)
(* its yield before it hands requests to the handlers, and gives up when   *)
(* lifespan() raises; load() is called by lifespan() only.  The files are  *)
(* put in place before the application starts.                             *)
(***************************************************************************)
IsNum(v) == DOMAIN v = {"num"}
IsStrList(v) == IsList(v) /\ \A i \in 1 .. Len(v.list) : IsStr(v.list[i])

\* an HTTP response: its status code and the exception that caused it, if any
Response(code, exc) == [status_code |-> code, exc |-> exc]

\* PredictionRequest: features has min_length=4 and max_length=4
PredictionRequestValid(features) == Len(features) = 4

\* PredictionResponse(...) accepts the values: str fields are not coerced
PredictionResponseValid(out, model_version) ==
    /\ IsStr(out.prediction)
    /\ out.confidence \in 0 .. 100
    /\ \A k \in DOMAIN out.probabilities : IsStr(k)
    /\ IsStr(model_version)

\* ModelInfo(**info) accepts the document
ModelInfoValid(info) ==
    /\ {"model_type", "version", "accuracy", "features", "classes",
        "training_samples", "test_samples"} \subseteq DOMAIN info
    /\ IsStr(info.model_type)
    /\ IsStr(info.version)
    /\ IsNum(info.accuracy)
    /\ IsStrList(info.features)
    /\ IsStrList(info.classes)
    /\ IsNum(info.training_samples)
    /\ IsNum(info.test_samples)

\* GET /health
health_check == [status_code |-> 200, exc |-> "", model_loaded |-> is_loaded]

\* GET /model/info
get_model_info ==
    IF ~is_loaded THEN Response(503, "HTTPException")
    ELSE IF get_info.status = "raised" THEN Response(500, get_info.exc)
    ELSE IF ~IsObj(get_info.value) THEN Response(500, "TypeError")
    ELSE IF ~ModelInfoValid(get_info.value.obj) THEN Response(500, "ValidationError")
    ELSE Response(200, "")

\* POST /predict: the request is validated before the handler runs; in the
\* handler "except ValueError" also catches pydantic's ValidationError
post_predict(features) ==
    IF ~PredictionRequestValid(features) THEN Response(422, "RequestValidationError")
    ELSE IF ~is_loaded THEN Response(503, "HTTPException")
    ELSE LET out == predict(features)
         IN  IF out.status = "raised"
             THEN Response(IF out.exc = "ValueError" THEN 400 ELSE 500, out.exc)
             ELSE IF ~IsObj(metadata) THEN Response(500, "TypeError")
             ELSE IF "version" \notin DOMAIN metadata.obj THEN Response(500, "KeyError")
             ELSE IF ~PredictionResponseValid(out, metadata.obj.version)
             THEN Response(400, "ValidationError")
             ELSE Response(200, "")

\* lifespan() is entered: the application starts
LifespanEnter ==
    /\ app = "down"
    /\ app' = "starting"
    /\ UNCHANGED <<disk, service, loadPc, call, prior, everLoaded, resp>>

\* line 21: model.load()
LifespanLoad ==
    /\ app = "starting"
    /\ call.status = "none"
    /\ LoadBegin

\* lines 22-27: load() returned, lifespan() yields and requests are served
LifespanYield ==
    /\ app = "starting"
    /\ loadPc = "idle"
    /\ call.status = "ok"
    /\ app' = "serving"
    /\ UNCHANGED <<disk, service, loadPc, call, prior, everLoaded, resp>>

\* lines 23-25: load() raised, lifespan() raises it again
LifespanRaise ==
    /\ app = "starting"
    /\ loadPc = "idle"
    /\ call.status = "raised"
    /\ app' = "failed"
    /\ UNCHANGED <<disk, service, loadPc, call, prior, everLoaded, resp>>

HealthCheck ==
    /\ app = "serving"
    /\ resp' = [op |-> "GET /health", out |-> health_check]
    /\ UNCHANGED <<disk, service, loadPc, call, prior, everLoaded, app>>

GetModelInfo ==
    /\ app = "serving"
    /\ resp' = [op |-> "GET /model/info", out |-> get_model_info]
    /\ UNCHANGED <<disk, service, loadPc, call, prior, everLoaded, app>>

PostPredict(features) ==
    /\ app = "serving"
    /\ resp' = [op |-> "POST /predict", input |-> features, out |-> post_predict(features)]
    /\ UNCHANGED <<disk, service, loadPc, call, prior, everLoaded, app>>

AppNext ==
    \/ app = "down" /\ TrainModel
    \/ app = "down" /\ \E b \in Bytes : WriteArtifact(<<b>>)
    \/ app = "down" /\ \E b \in TamperPayloads : Tamper(b)
    \/ app = "down" /\ RemoveArtifact
    \/ app = "down" /\ \E doc \in MetadataDocs : WriteMetadata(doc)
    \/ LifespanEnter
    \/ LifespanLoad
    \/ LoadReadMetadata
    \/ LoadVerify
    \/ LoadDeserialize
    \/ LoadPublish
    \/ LifespanYield
    \/ LifespanRaise
    \/ HealthCheck
    \/ GetModelInfo
    \/ \E features \in Inputs : PostPredict(features)

(***************************************************************************)
(* Vocabulary of the claims.                                               *)
(***************************************************************************)
NoneHeld == model = None /\ metadata = None /\ classes = None
AllHeld == model # None /\ metadata # None /\ classes # None
FilesExist == artifactFile # Missing /\ metadataFile # Missing

\* the metadata on disk declares a digest D and the artifact's digest is not D
DeclaredMismatch ==
    /\ FilesExist
    /\ IsObj(metadataFile)
    /\ "model_hash" \in DOMAIN metadataFile.obj
    /\ IsStr(metadataFile.obj.model_hash)
    /\ Truthy(metadataFile.obj.model_hash)
    /\ calculate_file_hash(artifactFile.bytes, "sha256") # metadataFile.obj.model_hash

\* C1: a load() of an artifact whose digest differs from the declared
\* model_hash never reaches joblib.load and ends with ModelIntegrityError.
C1_MismatchNeverDeserialized ==
    (call.status # "none" /\ DeclaredMismatch) =>
        /\ ~call.deserialized
        /\ loadPc \in {"idle", "read", "verify"}
        /\ loadPc = "idle" => (call.status = "raised" /\ call.exc = "ModelIntegrityError")

\* a reload of a loaded service failed on an artifact with appended bytes
C1_Witness ==
    /\ loadPc = "idle"
    /\ everLoaded
    /\ DeclaredMismatch
    /\ Len(artifactFile.bytes) > 1
    /\ call.status = "raised"
    /\ call.exc = "ModelIntegrityError"

\* the load() in progress will return normally, publishing the classifier of
\* the artifact and the class list of the metadata on disk
LoadWillSucceed ==
    /\ metadataFile # Malformed
    /\ IsObj(metadataFile)
    /\ ~DeclaredMismatch
    /\ ~Unpicklable(artifactFile.bytes)
    /\ "classes" \in DOMAIN metadataFile.obj

\* C2: a predict() that returns a result during a reload has used the
\* classifier and the class list of the prior state, or those of the new
\* state, never a mixture.
C2_ReloadNeverMixed ==
    (/\ resp.op = "predict"
     /\ resp.out.status = "ok"
     /\ loadPc # "idle"
     /\ prior.model # None /\ prior.metadata # None /\ prior.classes # None) =>
        \/ /\ model = prior.model
           /\ classes = prior.classes
        \/ /\ LoadWillSucceed
           /\ model = Deserialize(artifactFile.bytes)
           /\ classes = metadataFile.obj.classes

\* the reader call made in the current state was answered as by a loaded service
AnsweredAsLoaded ==
    \/ resp.op = "get_info" /\ resp.out.status = "ok"
    \/ resp.op = "is_loaded" /\ resp.out
    \/ resp.op = "predict" /\ ~(resp.out.status = "raised" /\ resp.out.exc = "RuntimeError")

\* C3: during the first load() a reader is answered as by a loaded service
\* only if the classifier, the metadata and the class list are all set: none
\* sees the metadata without the classifier, or is_loaded() true while
\* predict() is still refused.
C3_FirstLoadNeverTorn ==
    (/\ loadPc # "idle"
     /\ prior.model = None /\ prior.metadata = None /\ prior.classes = None
     /\ AnsweredAsLoaded) =>
        AllHeld

\* C4: a load() that fails on a service that never loaded leaves no field set.
C4_FailedLoadLeavesUnloaded ==
    (loadPc = "idle" /\ call.status = "raised" /\ ~everLoaded) =>
        (NoneHeld /\ ~is_loaded)

\* C5: before any load() has succeeded predict() raises the not-loaded error.
C5_PredictBeforeLoadFails ==
    (resp.op = "predict" /\ ~everLoaded) =>
        (resp.out.status = "raised" /\ resp.out.exc = "RuntimeError")

\* predict() was refused after a failed load() that had set the classifier
C5_Witness ==
    /\ resp.op = "predict"
    /\ ~everLoaded
    /\ loadPc = "idle"
    /\ call.status = "raised"
    /\ model # None
    /\ resp.out.exc = "RuntimeError"

\* C6: get_info() raises the not-loaded error whenever is_loaded() is false,
\* also after a failed load(), and returns the metadata only when loaded.
C6_InfoFailsWhenUnloaded ==
    (resp.op = "get_info" /\ loadPc = "idle") =>
        IF is_loaded
        THEN resp.out.status = "ok"
        ELSE resp.out.status = "raised" /\ resp.out.exc = "RuntimeError"

\* the feature arity the loaded metadata fixes: the length of its features
HasArity == IsObj(metadata) /\ "features" \in DOMAIN metadata.obj
                /\ IsList(metadata.obj.features)
Arity == Len(metadata.obj.features.list)

\* C7: on a loaded service an input of another length than the metadata's
\* arity raises ValueError before the classifier is called, and an input of
\* that length reaches the classifier.
C7_ArityFromMetadata ==
    (resp.op = "predict" /\ loadPc = "idle" /\ call.status = "ok" /\ HasArity) =>
        IF Len(resp.input) = Arity
        THEN resp.out.invoked
        ELSE /\ resp.out.status = "raised"
             /\ resp.out.exc = "ValueError"
             /\ ~resp.out.invoked

\* a metadata document load() should accept: an object with a non-empty list
\* of string classes and a string version
WellFormed(doc) ==
    /\ IsObj(doc)
    /\ "classes" \in DOMAIN doc.obj
    /\ IsList(doc.obj.classes)
    /\ doc.obj.classes.list # <<>>
    /\ \A i \in 1 .. Len(doc.obj.classes.list) : IsStr(doc.obj.classes.list[i])
    /\ "version" \in DOMAIN doc.obj
    /\ IsStr(doc.obj.version)

\* the exceptions through which the code rejects a metadata document
InvalidMetadataErrors == {"JSONDecodeError", "AttributeError", "KeyError"}

\* C8: load() of a malformed metadata document fails as invalid metadata
\* before the digest is computed and before the artifact is deserialized.
C8_MalformedMetadataRejectedFirst ==
    (call.status # "none" /\ FilesExist /\ ~WellFormed(metadataFile)) =>
        /\ call.algorithm = ""
        /\ ~call.deserialized
        /\ loadPc = "idle" =>
              (call.status = "raised" /\ call.exc \in InvalidMetadataErrors)

\* the algorithm the metadata names in hash_algorithm, sha256 if it names none
AlgorithmNamed(o) ==
    IF "hash_algorithm" \notin DOMAIN o THEN "sha256"
    ELSE IF o.hash_algorithm \in {Str("SHA-256"), Str("sha256")} THEN "sha256"
    ELSE o.hash_algorithm.str

\* C9: the digest load() compares with model_hash is computed with the
\* algorithm the metadata names, with sha256 only if it names none.
C9_DigestUsesNamedAlgorithm ==
    (call.algorithm # "") =>
        /\ call.algorithm = AlgorithmNamed(metadata.obj)
        /\ call.actual = calculate_file_hash(artifactFile.bytes, AlgorithmNamed(metadata.obj))

\* what C10 says of a result of predict()
ResultWellFormed(out) ==
    LET cls == classes.list
        probabilities == predict_proba(model, resp.input)
    IN  /\ \E i \in 1 .. Len(cls) : out.prediction = cls[i]
        /\ DOMAIN out.probabilities = {cls[i] : i \in 1 .. Len(cls)}
        /\ \A i \in 1 .. Len(cls) :
              i <= Len(probabilities) /\ out.probabilities[cls[i]] = probabilities[i]
        /\ out.confidence = out.probabilities[out.prediction]

\* the class list holds no label twice and no more labels than the
\* classifier has outputs
ClassesMatchClassifier ==
    /\ IsList(classes)
    /\ Len(classes.list) <= n_classes(model)
    /\ \A i, j \in 1 .. Len(classes.list) :
          classes.list[i] = classes.list[j] => i = j

\* C10 as stated: every result of predict() on a loaded service is well formed.
C10_EveryResultWellFormed ==
    (resp.op = "predict" /\ loadPc = "idle" /\ resp.out.status = "ok") =>
        ResultWellFormed(resp.out)

\* C10 amended: the result is well formed when the class labels are pairwise
\* distinct and no more numerous than the outputs of the classifier.
C10_ResultWellFormedIfClassesMatch ==
    (resp.op = "predict" /\ resp.out.status = "ok" /\ ClassesMatchClassifier) =>
        ResultWellFormed(resp.out)

\* predict() returned the last class for a matching class list
C10_Witness ==
    /\ resp.op = "predict"
    /\ loadPc = "idle"
    /\ resp.out.status = "ok"
    /\ ClassesMatchClassifier
    /\ resp.out.prediction = Str("virginica")
    /\ resp.out.confidence = 80

\* the document has no model_hash field
NoModelHash(doc) == IsObj(doc) /\ "model_hash" \notin DOMAIN doc.obj

\* C11: with both files present and no model_hash in the metadata, load()
\* returns normally and leaves is_loaded() true exactly if the artifact
\* deserializes and the metadata is well formed.
C11_NoHashLoadsIffWellFormed ==
    (/\ loadPc = "idle"
     /\ call.status \in {"ok", "raised"}
     /\ FilesExist
     /\ NoModelHash(metadataFile)) =>
        ((call.status = "ok" /\ is_loaded) <=>
            (~Unpicklable(artifactFile.bytes) /\ WellFormed(metadataFile)))

\* C12: no step of load(), predict(), get_info() or is_loaded() takes the
\* service from is_loaded() true to is_loaded() false.
C12_LoadedStaysLoaded == [][is_loaded => is_loaded']_vars

\* C13: a step of predict(), get_info() or is_loaded() leaves the classifier,
\* the metadata and the class list as they were, whatever its outcome, and
\* is_loaded() always answers with a Boolean.
C13_ReadersLeaveState ==
    [][resp'.op # "none" =>
          /\ service' = service
          /\ resp'.op = "is_loaded" => resp'.out \in BOOLEAN]_vars

\* predict() failed inside the classifier's output mapping on a loaded service
C13_Witness ==
    /\ resp.op = "predict"
    /\ model # None
    /\ resp.out.status = "raised"
    /\ resp.out.exc = "IndexError"

\* C14: a load() called while the artifact or the metadata path is missing
\* raises FileNotFoundError, computes no digest, deserializes nothing and
\* leaves the classifier, the metadata and the class list as they were.
C14_MissingPathNotFound ==
    [][(/\ loadPc = "idle"
        /\ ~FilesExist
        /\ resp'.op = "none"
        /\ call'.status # "none") =>
          /\ loadPc' = "idle"
          /\ call'.status = "raised"
          /\ call'.exc = "FileNotFoundError"
          /\ call'.algorithm = ""
          /\ ~call'.deserialized
          /\ service' = service]_vars

\* a reload of a loaded service found the artifact deleted
C14_Witness ==
    /\ call.status = "raised"
    /\ call.exc = "FileNotFoundError"
    /\ artifactFile = Missing
    /\ metadataFile # Missing
    /\ AllHeld

\* the metadata on disk declares the sha256 digest of the artifact on disk
DeclaredMatch ==
    /\ FilesExist
    /\ IsObj(metadataFile)
    /\ "model_hash" \in DOMAIN metadataFile.obj
    /\ metadataFile.obj.model_hash = calculate_file_hash(artifactFile.bytes, "sha256")

\* what C17 says of the service after load()
LoadedFromDisk ==
    /\ call.status = "ok"
    /\ is_loaded
    /\ get_info.status = "ok"
    /\ get_info.value = metadataFile
    /\ classes = metadataFile.obj.classes

\* C17 as stated: a load() of a well-formed metadata whose model_hash is the
\* digest of the artifact returns normally; then is_loaded() is true,
\* get_info() returns the document read and the class list is its classes.
C17_MatchingHashLoads ==
    (/\ loadPc = "idle"
     /\ call.status \in {"ok", "raised"}
     /\ WellFormed(metadataFile)
     /\ DeclaredMatch) =>
        LoadedFromDisk

\* C17 amended: the same for an artifact that joblib.load can deserialize.
C17_MatchingHashLoadsPickle ==
    (/\ loadPc = "idle"
     /\ call.status \in {"ok", "raised"}
     /\ WellFormed(metadataFile)
     /\ DeclaredMatch
     /\ ~Unpicklable(artifactFile.bytes)) =>
        LoadedFromDisk

\* load() returned normally on the files of the two-class model
C17_Witness ==
    /\ loadPc = "idle"
    /\ call.status = "ok"
    /\ DeclaredMatch
    /\ metadataFile = Obj(AltMetadata)
    /\ model = [clf |-> "alt"]
    /\ classes = List(<<Str("ham"), Str("spam")>>)

\* C18: a load() that ended with ModelIntegrityError reports the model_hash
\* of the metadata as expected and the digest it computed of the artifact as
\* actual, and the two differ.
C18_IntegrityErrorCarriesDigests ==
    (call.status = "raised" /\ call.exc = "ModelIntegrityError") =>
        /\ call.expected = metadataFile.obj.model_hash
        /\ call.actual = calculate_file_hash(artifactFile.bytes, call.algorithm)
        /\ call.expected # call.actual

\* the integrity error of a tampered artifact: the digest train_model()
\* declared and the digest of the longer file
C18_Witness ==
    /\ call.status = "raised"
    /\ call.exc = "ModelIntegrityError"
    /\ call.expected = calculate_file_hash(Pickle("iris"), "sha256")
    /\ call.actual = calculate_file_hash(Append(Pickle("iris"), 0), "sha256")

\* C20: load() reaches joblib.load with a digest computed and compared
\* exactly if the metadata has a model_hash field, whatever its value; it
\* computes no digest when the field is absent.
C20_CheckSkippedOnlyIfAbsent ==
    (call.status # "none" /\ IsObj(metadata)) =>
        /\ call.deserialized =>
              (call.algorithm # "" <=> "model_hash" \in DOMAIN metadata.obj)
        /\ "model_hash" \notin DOMAIN metadata.obj => call.algorithm = ""

\* C15: POST /predict answers an invalid input (wrong feature count) with a
\* 4xx code, a service that is not loaded with 503, and with 500 only a
\* failure that is neither.
C15_PredictHandlerMapping ==
    resp.op = "POST /predict" =>
        LET out == predict(resp.input)
            code == resp.out.status_code
            invalid == \/ Len(resp.input) # 4
                       \/ out.status = "raised" /\ out.exc = "ValueError"
            notLoaded == \/ ~is_loaded
                         \/ out.status = "raised" /\ out.exc = "RuntimeError"
        IN  /\ invalid => code \in 400 .. 499
            /\ (~invalid /\ notLoaded) => code = 503
            /\ (~invalid /\ ~notLoaded) => code \in {200, 500}

\* C16: after a load() that failed at startup the application is not
\* serving, no handler has answered and is_loaded() is false.
C16_FailedStartupNeverServes ==
    (loadPc = "idle" /\ call.status = "raised") =>
        /\ app \in {"starting", "failed"}
        /\ resp.op = "none"
        /\ ~is_loaded

\* C21: a load() that raises on a service that held a classifier, a metadata
\* and a class list when the call began leaves all three as they were.
C21_FailedReloadKeepsState ==
    [][(/\ loadPc # "idle"
        /\ loadPc' = "idle"
        /\ call'.status = "raised"
        /\ prior.model # None /\ prior.metadata # None /\ prior.classes # None) =>
          /\ model' = prior.model
          /\ metadata' = prior.metadata
          /\ classes' = prior.classes]_vars

\* C22: between load() calls, is_loaded() true means that the classifier, the
\* metadata and the class list are set and that the class list is the
\* classes entry of the metadata held.
C22_LoadedMeansComplete ==
    (loadPc = "idle" /\ is_loaded) =>
        /\ AllHeld
        /\ IsObj(metadata)
        /\ "classes" \in DOMAIN metadata.obj
        /\ classes = metadata.obj.classes
        /\ NotLoadedError = None

Spec == Init /\ [][Next]_vars

AppSpec == Init /\ [][AppNext]_vars
====
